---- MODULE Spec2Model ----
(***************************************************************************)
(* A model of mcp-server-monday: the tool dispatcher of tools.py           *)
(* (handle_call_tool and the handlers it routes to) and the handlers of    *)
(* item.py, which callers (the integration tests) invoke directly.         *)
(*                                                                         *)
(* One invocation is followed from its start to its end.  A handler runs   *)
(* up to its next call of the Monday client, waits for the client          *)
(* (pc = "awaiting"), and goes on with what the client returned or raised. *)
(* The client is the environment: its answers are drawn from bounded sets  *)
(* of well-formed and malformed payloads and of raised errors.             *)
(***************************************************************************)
EXTENDS Naturals, Sequences, FiniteSets, TLC

VARIABLES pc, inv, frame, calls, answers, result, log, catalog, cur, other

vars == <<pc, inv, frame, calls, answers, result, log, catalog, cur, other>>

(***************************************************************************)
(* Bounds of the model.                                                    *)
(***************************************************************************)
MaxItems == 4
MaxGroups == 2
MaxUpdates == 2

(***************************************************************************)
(* Python values.  A value is tagged with its type; a dict is a function   *)
(* from keys to values, a list is a sequence.                              *)
(***************************************************************************)
PyNone == [t |-> "None"]
PyStr(s) == [t |-> "str", s |-> s]
PyInt(n) == [t |-> "int", n |-> n]
PyDict(f) == [t |-> "dict", d |-> f]
PyList(q) == [t |-> "list", l |-> q]
EmptyDict == PyDict(<<>>)

\* bool(v): None, "", 0, {} and [] are false.
Truthy(v) ==
    CASE v.t = "None" -> FALSE
      [] v.t = "str" -> v.s # ""
      [] v.t = "int" -> v.n # 0
      [] v.t = "dict" -> DOMAIN v.d # {}
      [] v.t = "list" -> Len(v.l) > 0

IsDict(v) == v.t = "dict"
IsList(v) == v.t = "list"
HasKey(v, k) == k \in DOMAIN v.d

\* d.get(k, default) of a dict d.
DictGet(v, k, default) == IF k \in DOMAIN v.d THEN v.d[k] ELSE default

\* a == b of two values that are None or strings.
PyEq(a, b) == a.t = b.t /\ (a.t = "str" => a.s = b.s)

\* The type name Python prints in its error messages.
TypeName(v) == IF v.t = "None" THEN "NoneType" ELSE v.t

\* A text is a sequence of string pieces, in the order an f-string emits them.
RECURSIVE JoinPieces(_, _)
JoinPieces(qs, sep) ==
    IF Len(qs) = 0 THEN <<>>
    ELSE IF Len(qs) = 1 THEN qs[1]
    ELSE qs[1] \o <<sep>> \o JoinPieces(Tail(qs), sep)

\* The decimal digits of a natural number.
RECURSIVE Digits(_)
Digits(n) ==
    LET d == <<"0", "1", "2", "3", "4", "5", "6", "7", "8", "9">>
    IN IF n < 10 THEN <<d[n + 1]>> ELSE Digits(n \div 10) \o <<d[(n % 10) + 1]>>

\* The keys of a dict, in one fixed order.
RECURSIVE KeySeq(_)
KeySeq(ks) ==
    IF ks = {} THEN <<>>
    ELSE LET k == CHOOSE x \in ks : TRUE IN <<k>> \o KeySeq(ks \ {k})

\* repr(v): what an f-string prints for a value inside a list or dict.
RECURSIVE Repr(_)
Repr(v) ==
    CASE v.t = "None" -> <<"None">>
      [] v.t = "str" -> <<"'", v.s, "'">>
      [] v.t = "int" -> Digits(v.n)
      [] v.t = "list" ->
            <<"[">> \o JoinPieces([i \in 1..Len(v.l) |-> Repr(v.l[i])], ", ") \o <<"]">>
      [] v.t = "dict" ->
            LET ks == KeySeq(DOMAIN v.d)
            IN <<"{">>
               \o JoinPieces([i \in 1..Len(ks) |->
                                <<"'", ks[i], "'", ": ">> \o Repr(v.d[ks[i]])], ", ")
               \o <<"}">>

\* str(v), what an f-string prints for {v}: a string prints bare.
Str(v) == IF v.t = "str" THEN <<v.s>> ELSE Repr(v)

\* json.dumps(v).
RECURSIVE JsonDumps(_)
JsonDumps(v) ==
    CASE v.t = "None" -> <<"null">>
      [] v.t = "str" -> <<"\"", v.s, "\"">>
      [] v.t = "int" -> Digits(v.n)
      [] v.t = "list" ->
            <<"[">> \o JoinPieces([i \in 1..Len(v.l) |-> JsonDumps(v.l[i])], ", ") \o <<"]">>
      [] v.t = "dict" ->
            LET ks == KeySeq(DOMAIN v.d)
            IN <<"{">>
               \o JoinPieces([i \in 1..Len(ks) |->
                                <<"\"", ks[i], "\"", ": ">> \o JsonDumps(v.d[ks[i]])], ", ")
               \o <<"}">>

\* q occurs in s as a run of consecutive pieces.
Contains(s, q) ==
    \E i \in 0..(Len(s) - Len(q)) : \A j \in 1..Len(q) : s[i + j] = q[j]

(***************************************************************************)
(* Exceptions and what a handler step yields.                              *)
(***************************************************************************)
Exc(type, msg) == [type |-> type, msg |-> msg]

\* v.get(...) on a value that is no dict.
AttributeError(v, attr) ==
    Exc("AttributeError", <<"'", TypeName(v), "' object has no attribute '", attr, "'">>)
\* v[k] on a dict without the key k.
KeyError(k) == Exc("KeyError", <<"'", k, "'">>)
\* v[k] on a value that cannot be subscripted.
NotSubscriptable(v) ==
    Exc("TypeError", <<"'", TypeName(v), "' object is not subscriptable">>)

TextContent(text) == [type |-> "text", text |-> text]

Return(content) == [k |-> "return", content |-> content]
Raise(e) == [k |-> "raise", exc |-> e]
Call(op, params, cont, loc) ==
    [k |-> "call", call |-> [op |-> op, params |-> params], cont |-> cont, loc |-> loc]

\* What the Monday client does with a call: it returns a value or raises.
Returned(v) == [k |-> "ok", v |-> v]
Raised(e) == [k |-> "exc", exc |-> e]

TransportError == Exc("ConnectionError", <<"connection refused">>)

\* v[k], as a value or as the exception it raises.
Ok(v) == [ok |-> TRUE, v |-> v]
Err(e) == [ok |-> FALSE, exc |-> e]
Subscriptable(v, k) == IsDict(v) /\ HasKey(v, k)
SubscriptExc(v, k) ==
    CASE v.t = "dict" -> KeyError(k)
      [] v.t = "list" ->
            Exc("TypeError", <<"list indices must be integers or slices, not str">>)
      [] v.t = "str" -> Exc("TypeError", <<"string indices must be integers">>)
      [] OTHER -> NotSubscriptable(v)
GetItem(v, k) == IF Subscriptable(v, k) THEN Ok(v.d[k]) ELSE Err(SubscriptExc(v, k))
\* v.get(k, default), as a value or as the exception it raises.
GetMethod(v, k, default) ==
    IF IsDict(v) THEN Ok(DictGet(v, k, default)) ELSE Err(AttributeError(v, "get"))

(***************************************************************************)
(* tools.py: the tool names, the catalog and the handlers.                 *)
(***************************************************************************)
CREATE_ITEM == "monday-create-item"
GET_BOARD_GROUPS == "monday-get-board-groups"
CREATE_UPDATE == "monday-create-update"
LIST_BOARDS == "monday-list-boards"
LIST_ITEMS_IN_GROUPS == "monday-list-items-in-groups"
LIST_SUBITEMS_IN_ITEMS == "monday-list-subitems-in-items"
GET_BOARD_COLUMNS == "monday-get-board-columns"

\* A catalog that also lists the compound tool of item.py, for which
\* handle_call_tool has no case.
ServerTools_with_update_item_name ==
    <<CREATE_ITEM, GET_BOARD_COLUMNS, GET_BOARD_GROUPS, CREATE_UPDATE, LIST_BOARDS,
      LIST_ITEMS_IN_GROUPS, LIST_SUBITEMS_IN_ITEMS, "monday-update-item-name">>

\* The names of the tools of ServerTools, in the order of the list.
ServerTools ==
    <<CREATE_ITEM, GET_BOARD_COLUMNS, GET_BOARD_GROUPS, CREATE_UPDATE, LIST_BOARDS,
      LIST_ITEMS_IN_GROUPS, LIST_SUBITEMS_IN_ITEMS>>

CatalogNames == {ServerTools[i] : i \in 1..Len(ServerTools)}

\* The "required" list of the inputSchema of a tool of ServerTools (list-boards
\* has none).
RequiredArguments(name) ==
    CASE name = CREATE_ITEM -> {"boardId", "itemTitle"}
      [] name = GET_BOARD_COLUMNS -> {"boardId"}
      [] name = GET_BOARD_GROUPS -> {"boardId"}
      [] name = CREATE_UPDATE -> {"itemId", "updateText"}
      [] name = LIST_BOARDS -> {}
      [] name = LIST_ITEMS_IN_GROUPS -> {"boardId", "groupIds"}
      [] name = LIST_SUBITEMS_IN_ITEMS -> {"itemIds"}
      [] OTHER -> {}

\* The base of the links to items, read from the environment by constants.py.
MONDAY_WORKSPACE_URL == "https://acme.monday.com"

\* A create-item that tests groupId alone first: with both arguments set it
\* creates an item instead of returning the conflict text.
tools_handle_monday_create_item_group_first(a) ==
    IF a.groupId.t # "None"
    THEN Call("items.create_item",
              [board_id |-> a.boardId, group_id |-> a.groupId,
               item_name |-> a.itemTitle, column_values |-> a.column_values],
              "created", <<>>)
    ELSE IF a.parentItemId.t # "None"
    THEN Call("items.create_subitem",
              [parent_item_id |-> a.parentItemId, subitem_name |-> a.itemTitle,
               column_values |-> a.column_values],
              "created", <<>>)
    ELSE Return(<<TextContent(
            <<"You can set either groupId or parentItemId argument, but not both.">>)>>)

\* tools.py handle_monday_create_item, up to its call of the client.
tools_handle_monday_create_item(a) ==
    IF a.parentItemId.t = "None" /\ a.groupId.t # "None"
    THEN Call("items.create_item",
              [board_id |-> a.boardId, group_id |-> a.groupId,
               item_name |-> a.itemTitle, column_values |-> a.column_values],
              "created", <<>>)
    ELSE IF a.parentItemId.t # "None" /\ a.groupId.t = "None"
    THEN Call("items.create_subitem",
              [parent_item_id |-> a.parentItemId, subitem_name |-> a.itemTitle,
               column_values |-> a.column_values],
              "created", <<>>)
    ELSE Return(<<TextContent(
            <<"You can set either groupId or parentItemId argument, but not both.">>)>>)

\* The id read from the create_item entry whatever was created.
tools_id_key_item(a) == "create_item"

\* The key of the response the id is read from.
tools_id_key(a) == IF a.parentItemId.t = "None" THEN "create_item" ELSE "create_subitem"

\* tools.py handle_monday_create_item, from the client's answer on.  The call
\* is made outside the try block: what it raises escapes the handler.
tools_handle_monday_create_item_created(a, ext) ==
    IF ext.k = "exc" THEN Raise(ext.exc)
    ELSE LET error(e) == Return(<<TextContent(<<"Error creating Monday item: ">> \o e.msg)>>)
             data == GetItem(ext.v, "data")
         IN IF ~data.ok THEN error(data.exc)
            ELSE LET entry == GetMethod(data.v, tools_id_key(a), PyNone)
                 IN IF ~entry.ok THEN error(entry.exc)
                    ELSE LET id == GetMethod(entry.v, "id", PyNone)
                         IN IF ~id.ok THEN error(id.exc)
                            ELSE Return(<<TextContent(
                                    <<"Created a new Monday item. URL: ",
                                      MONDAY_WORKSPACE_URL, "/boards/">>
                                    \o Str(a.boardId) \o <<"/pulses/">> \o Str(id.v))>>)

\* tools.py handle_monday_get_board_groups.
tools_handle_monday_get_board_groups(a) ==
    Call("groups.get_groups_by_board", [board_ids |-> a.boardId], "fetched", <<>>)

tools_handle_monday_get_board_groups_fetched(a, ext) ==
    IF ext.k = "exc" THEN Raise(ext.exc)
    ELSE LET data == GetItem(ext.v, "data")
         IN IF ~data.ok THEN Raise(data.exc)
            ELSE Return(<<TextContent(
                    <<"Got the groups of a Monday board. ">> \o JsonDumps(data.v))>>)

\* tools.py handle_monday_get_board_columns.
tools_handle_monday_get_board_columns(a) ==
    Call("custom._query",
         [query |-> [root |-> "boards", ids |-> Str(a.boardId), select |-> "columns"]],
         "fetched", <<>>)

tools_handle_monday_get_board_columns_fetched(a, ext) ==
    IF ext.k = "exc" THEN Raise(ext.exc)
    ELSE Return(<<TextContent(
            <<"Got the columns of a Monday board. ">> \o JsonDumps(ext.v))>>)

\* tools.py handle_monday_create_update.
tools_handle_monday_create_update(a) ==
    Call("updates.create_update", [item_id |-> a.itemId, update_value |-> a.updateText],
         "created", <<>>)

tools_handle_monday_create_update_created(a, ext) ==
    IF ext.k = "exc" THEN Raise(ext.exc)
    ELSE Return(<<TextContent(
            <<"Created new update on Monday item: ">> \o Str(a.updateText))>>)

\* tools.py handle_monday_list_boards.
tools_handle_monday_list_boards(a) ==
    Call("boards.fetch_boards", [limit |-> a.limit], "fetched", <<>>)

\* The lines "- {board['name']} (ID: {board['id']})" of a list of boards, or the
\* exception of the first board that lacks a key.
RECURSIVE BoardLines(_)
BoardLines(boards) ==
    IF Len(boards) = 0 THEN Ok(<<>>)
    ELSE IF ~Subscriptable(boards[1], "name") THEN Err(SubscriptExc(boards[1], "name"))
    ELSE IF ~Subscriptable(boards[1], "id") THEN Err(SubscriptExc(boards[1], "id"))
    ELSE LET rest == BoardLines(Tail(boards))
         IN IF ~rest.ok THEN rest
            ELSE Ok(<<<<"- ">> \o Str(boards[1].d["name"]) \o <<" (ID: ">>
                      \o Str(boards[1].d["id"]) \o <<")">>>> \o rest.v)

tools_handle_monday_list_boards_fetched(a, ext) ==
    IF ext.k = "exc" THEN Raise(ext.exc)
    ELSE LET data == GetItem(ext.v, "data")
             boards == IF data.ok THEN GetItem(data.v, "boards") ELSE data
         IN IF ~boards.ok THEN Raise(boards.exc)
            ELSE IF ~IsList(boards.v)
            THEN Raise(Exc("TypeError",
                           <<"'", TypeName(boards.v), "' object is not iterable">>))
            ELSE LET lines == BoardLines(boards.v.l)
                 IN IF ~lines.ok THEN Raise(lines.exc)
                    ELSE Return(<<TextContent(
                            <<"Available Monday.com Boards:\n">>
                            \o JoinPieces(lines.v, "\n"))>>)

\* The pieces an items_page parameter list is written with.
GroupFilterOpen == "query_params: {rules: [{column_id: \"group\", compare_value: ["
GroupFilterClose == "], operator: any_of}]}"
CursorOpen == "cursor: \""
LimitOpen == " limit: "

\* ", ".join([f'"{group_id}"' for group_id in groupIds])
formatted_group_ids(groupIds) ==
    JoinPieces([i \in 1..Len(groupIds) |-> <<"\"">> \o Str(groupIds[i]) \o <<"\"">>], ", ")

\* The parameters chosen by groupIds alone: a cursor given along with group ids
\* is dropped and the first page of the groups is asked for again.
tools_items_page_params_groups_first(a) ==
    (IF Truthy(a.groupIds)
     THEN <<GroupFilterOpen>> \o formatted_group_ids(a.groupIds.l) \o <<GroupFilterClose>>
     ELSE <<CursorOpen>> \o Str(a.cursor) \o <<"\"">>)
    \o <<LimitOpen>> \o Str(a.limit)

\* tools.py handle_monday_list_items_in_groups: the items_page parameters.
tools_items_page_params(a) ==
    (IF Truthy(a.groupIds) /\ ~Truthy(a.cursor)
     THEN <<GroupFilterOpen>> \o formatted_group_ids(a.groupIds.l) \o <<GroupFilterClose>>
     ELSE <<CursorOpen>> \o Str(a.cursor) \o <<"\"">>)
    \o <<LimitOpen>> \o Str(a.limit)

\* tools.py handle_monday_list_items_in_groups.
tools_handle_monday_list_items_in_groups(a) ==
    Call("custom._query",
         [query |-> [root |-> "boards", ids |-> Str(a.boardId),
                     items_page |-> tools_items_page_params(a),
                     select |-> "cursor items {id name column_values}"]],
         "fetched", <<>>)

tools_handle_monday_list_items_in_groups_fetched(a, ext) ==
    IF ext.k = "exc" THEN Raise(ext.exc)
    ELSE Return(<<TextContent(
            <<"Items in groups ">> \o Str(a.groupIds) \o <<" of Monday board ">>
            \o Str(a.boardId) \o <<": ">> \o JsonDumps(ext.v))>>)

\* tools.py handle_monday_list_subitems_in_items: ", ".join(itemIds) raises on
\* a value that is no list of strings.
tools_handle_monday_list_subitems_in_items(a) ==
    IF ~IsList(a.itemIds)
    THEN Raise(Exc("TypeError", <<"can only join an iterable">>))
    ELSE Call("custom._query",
              [query |-> [root |-> "items",
                          ids |-> JoinPieces([i \in 1..Len(a.itemIds.l) |->
                                                Str(a.itemIds.l[i])], ", "),
                          select |-> "subitems {id name parent_item column_values}"]],
              "fetched", <<>>)

tools_handle_monday_list_subitems_in_items_fetched(a, ext) ==
    IF ext.k = "exc" THEN Raise(ext.exc)
    ELSE Return(<<TextContent(
            <<"Sub-items of Monday items ">> \o Str(a.itemIds) \o <<": ">>
            \o JsonDumps(ext.v))>>)

(***************************************************************************)
(* tools.py handle_call_tool: the match on the tool name.  Each case reads *)
(* its arguments with arguments.get, which raises when the bag is None,    *)
(* and returns what its handler returns.                                   *)
(***************************************************************************)
Routed(h, a, o) == [h |-> h, a |-> a, o |-> o]
NotRouted(e) == [h |-> "none", a |-> <<>>, o |-> Raise(e)]

\* A dispatcher that does nothing for a name it does not know: it returns an
\* empty content list instead of raising.
undefined_tool_noop(name) == [h |-> "none", a |-> <<>>, o |-> Return(<<>>)]

\* case _: raise ValueError(f"Undefined behaviour for tool: {name}")
undefined_tool(name) ==
    NotRouted(Exc("ValueError", <<"Undefined behaviour for tool: ", name>>))

handle_call_tool(name, arguments) ==
    LET get(k) == DictGet(arguments, k, PyNone)
        noBag == NotRouted(AttributeError(arguments, "get"))
    IN CASE name = CREATE_ITEM ->
              IF ~IsDict(arguments) THEN noBag
              ELSE LET a == [boardId |-> get("boardId"), itemTitle |-> get("itemTitle"),
                             groupId |-> get("groupId"),
                             parentItemId |-> get("parentItemId"),
                             column_values |-> get("column_values")]
                   IN Routed("tools.handle_monday_create_item", a,
                             tools_handle_monday_create_item(a))
         [] name = GET_BOARD_COLUMNS ->
              IF ~IsDict(arguments) THEN noBag
              ELSE LET a == [boardId |-> get("boardId")]
                   IN Routed("tools.handle_monday_get_board_columns", a,
                             tools_handle_monday_get_board_columns(a))
         [] name = GET_BOARD_GROUPS ->
              IF ~IsDict(arguments) THEN noBag
              ELSE LET a == [boardId |-> get("boardId")]
                   IN Routed("tools.handle_monday_get_board_groups", a,
                             tools_handle_monday_get_board_groups(a))
         [] name = CREATE_UPDATE ->
              IF ~IsDict(arguments) THEN noBag
              ELSE LET a == [itemId |-> get("itemId"), updateText |-> get("updateText")]
                   IN Routed("tools.handle_monday_create_update", a,
                             tools_handle_monday_create_update(a))
         [] name = LIST_BOARDS ->
              LET a == [limit |-> PyInt(100)]
              IN Routed("tools.handle_monday_list_boards", a,
                        tools_handle_monday_list_boards(a))
         [] name = LIST_ITEMS_IN_GROUPS ->
              IF ~IsDict(arguments) THEN noBag
              ELSE LET a == [boardId |-> get("boardId"), groupIds |-> get("groupIds"),
                             limit |-> get("limit"), cursor |-> get("cursor")]
                   IN Routed("tools.handle_monday_list_items_in_groups", a,
                             tools_handle_monday_list_items_in_groups(a))
         [] name = LIST_SUBITEMS_IN_ITEMS ->
              IF ~IsDict(arguments) THEN noBag
              ELSE LET a == [itemIds |-> get("itemIds")]
                   IN Routed("tools.handle_monday_list_subitems_in_items", a,
                             tools_handle_monday_list_subitems_in_items(a))
         [] OTHER -> undefined_tool(name)

\* logger.error(f"Error calling tool {name}: {e}")
LogError(name, e) == [level |-> "error", text |-> <<"Error calling tool ", name, ": ">> \o e.msg]

\* An except clause that logs and then returns the error as a text instead of
\* raising it again.
Deliver_swallowing(entry, name, o) ==
    IF o.k = "raise"
    THEN /\ result' = IF entry = "callTool"
                      THEN [kind |-> "returned",
                            content |-> <<TextContent(<<"Error calling tool ", name, ": ">>
                                                      \o o.exc.msg)>>]
                      ELSE [kind |-> "raised", exc |-> o.exc]
         /\ log' = IF entry = "callTool" THEN Append(log, LogError(name, o.exc)) ELSE log
    ELSE /\ result' = [kind |-> "returned", content |-> o.content]
         /\ log' = log

\* How an invocation ends for its caller.  Under handle_call_tool an exception
\* is logged and raised again; a handler called directly raises to its caller.
Deliver(entry, name, o) ==
    IF o.k = "raise"
    THEN /\ result' = [kind |-> "raised", exc |-> o.exc]
         /\ log' = IF entry = "callTool" THEN Append(log, LogError(name, o.exc)) ELSE log
    ELSE /\ result' = [kind |-> "returned", content |-> o.content]
         /\ log' = log

\* One step of a handler: it calls the client and waits, or it ends.
Step(f, name, o) ==
    IF o.k = "call"
    THEN /\ calls' = Append(calls, o.call)
         /\ frame' = [f EXCEPT !.stage = o.cont, !.loc = o.loc]
         /\ pc' = "awaiting"
         /\ UNCHANGED <<result, log>>
    ELSE /\ frame' = [f EXCEPT !.stage = "ended"]
         /\ pc' = "done"
         /\ UNCHANGED calls
         /\ Deliver(f.entry, name, o)

(***************************************************************************)
(* item.py: the handlers.                                                  *)
(***************************************************************************)
\* item.py handle_monday_list_items_in_groups: the items_page parameters.
item_items_page_params(a) ==
    (IF Truthy(a.groupIds) /\ ~Truthy(a.cursor)
     THEN <<GroupFilterOpen>> \o formatted_group_ids(a.groupIds.l) \o <<GroupFilterClose>>
     ELSE <<CursorOpen>> \o Str(a.cursor) \o <<"\"">>)
    \o <<LimitOpen>> \o Str(a.limit)

\* item.py handle_monday_list_items_in_groups.
item_handle_monday_list_items_in_groups(a) ==
    Call("custom._query",
         [query |-> [root |-> "boards", ids |-> Str(a.boardId),
                     items_page |-> item_items_page_params(a),
                     select |-> "cursor items {id name updates column_values}"]],
         "fetched", <<>>)

item_handle_monday_list_items_in_groups_fetched(a, ext) ==
    IF ext.k = "exc" THEN Raise(ext.exc)
    ELSE Return(<<TextContent(
            <<"Items in groups ">> \o Str(a.groupIds) \o <<" of Monday.com board ">>
            \o Str(a.boardId) \o <<": ">> \o JsonDumps(ext.v))>>)

\* item.py handle_monday_create_item, up to its call of the client.
item_handle_monday_create_item(a) ==
    IF a.parentItemId.t = "None" /\ a.groupId.t # "None"
    THEN Call("items.create_item",
              [board_id |-> a.boardId, group_id |-> a.groupId,
               item_name |-> a.itemTitle, column_values |-> a.columnValues],
              "created", <<>>)
    ELSE IF a.parentItemId.t # "None" /\ a.groupId.t = "None"
    THEN Call("items.create_subitem",
              [parent_item_id |-> a.parentItemId, subitem_name |-> a.itemTitle,
               column_values |-> a.columnValues],
              "created", <<>>)
    ELSE Return(<<TextContent(
            <<"You can set either groupId or parentItemId argument, but not both.">>)>>)

\* The key of the response the id is read from.
item_id_key(a) == IF a.parentItemId.t = "None" THEN "create_item" ELSE "create_subitem"

\* item.py handle_monday_create_item, from the client's answer on.
item_handle_monday_create_item_created(a, ext) ==
    IF ext.k = "exc" THEN Raise(ext.exc)
    ELSE LET error(e) ==
                 Return(<<TextContent(<<"Error creating Monday.com item: ">> \o e.msg)>>)
             data == GetItem(ext.v, "data")
         IN IF ~data.ok THEN error(data.exc)
            ELSE LET entry == GetMethod(data.v, item_id_key(a), PyNone)
                 IN IF ~entry.ok THEN error(entry.exc)
                    ELSE LET id == GetMethod(entry.v, "id", PyNone)
                         IN IF ~id.ok THEN error(id.exc)
                            ELSE Return(<<TextContent(
                                    <<"Created a new Monday.com item. URL: ",
                                      MONDAY_WORKSPACE_URL, "/boards/">>
                                    \o Str(a.boardId) \o <<"/pulses/">> \o Str(id.v))>>)

\* item.py handle_monday_get_item_updates: the query, sent with no_log=True.
get_item_updates_query(a) ==
    [root |-> "items", ids |-> Str(a.itemId), updates_limit |-> Str(a.limit),
     select |-> "updates {id body created_at creator assets}"]

item_handle_monday_get_item_updates(a) ==
    Call("custom._query", [query |-> get_item_updates_query(a), no_log |-> TRUE],
         "first", <<>>)

\* The lines of the attached files of an update, or the exception of the first
\* asset that lacks a key.
RECURSIVE AssetLines(_)
AssetLines(assets) ==
    IF Len(assets) = 0 THEN Ok(<<>>)
    ELSE IF ~Subscriptable(assets[1], "name") THEN Err(SubscriptExc(assets[1], "name"))
    ELSE IF ~Subscriptable(assets[1], "url") THEN Err(SubscriptExc(assets[1], "url"))
    ELSE LET rest == AssetLines(Tail(assets))
         IN IF ~rest.ok THEN rest
            ELSE Ok(<<"- ">> \o Str(assets[1].d["name"]) \o <<": ">>
                    \o Str(assets[1].d["url"]) \o <<"\n">> \o rest.v)

\* The exception the formatting of one update raises before it reaches the
\* attached files, if any: the keys are read in the order of the code.
UpdateFieldsExc(update) ==
    IF ~Subscriptable(update, "id") THEN Err(SubscriptExc(update, "id"))
    ELSE IF ~Subscriptable(update, "created_at") THEN Err(SubscriptExc(update, "created_at"))
    ELSE IF ~Subscriptable(update, "creator") THEN Err(SubscriptExc(update, "creator"))
    ELSE IF ~Subscriptable(update.d["creator"], "name")
    THEN Err(SubscriptExc(update.d["creator"], "name"))
    ELSE IF ~Subscriptable(update.d["creator"], "id")
    THEN Err(SubscriptExc(update.d["creator"], "id"))
    ELSE IF ~Subscriptable(update, "body") THEN Err(SubscriptExc(update, "body"))
    ELSE Ok(<<>>)

\* The lines of update.get("assets") when it is truthy.
UpdateFiles(update) ==
    IF ~Truthy(DictGet(update, "assets", PyNone)) THEN Ok(<<>>)
    ELSE IF ~IsList(update.d["assets"])
    THEN Err(Exc("TypeError", <<"string indices must be integers">>))
    ELSE AssetLines(update.d["assets"].l)

\* update_text of one update, or the exception its formatting raises.
UpdateText(update) ==
    IF ~UpdateFieldsExc(update).ok THEN UpdateFieldsExc(update)
    ELSE IF ~UpdateFiles(update).ok THEN UpdateFiles(update)
    ELSE Ok(<<"Update ID: ">> \o Str(update.d["id"])
            \o <<"\n", "Created: ">> \o Str(update.d["created_at"])
            \o <<"\n", "Creator: ">> \o Str(update.d["creator"].d["name"])
            \o <<" (ID: ">> \o Str(update.d["creator"].d["id"])
            \o <<")\n", "Body: ">> \o Str(update.d["body"]) \o <<"\n">>
            \o (IF Truthy(DictGet(update, "assets", PyNone))
                THEN <<"\nAttached Files:\n">> \o UpdateFiles(update).v
                ELSE <<>>)
            \o <<"\n\n">>)

\* ''.join(formatted_updates)
RECURSIVE FormattedUpdates(_)
FormattedUpdates(updates) ==
    IF Len(updates) = 0 THEN Ok(<<>>)
    ELSE IF ~UpdateText(updates[1]).ok THEN UpdateText(updates[1])
    ELSE LET rest == FormattedUpdates(Tail(updates))
         IN IF ~rest.ok THEN rest ELSE Ok(UpdateText(updates[1]).v \o rest.v)

NoUpdatesFound(a) ==
    Return(<<TextContent(<<"No updates found for item ">> \o Str(a.itemId) \o <<".">>)>>)

\* The test without its last clause: a first item whose updates are an empty
\* list is rendered as a block of updates (the updates are still read from the
\* first item right after the test).
response_is_empty_three_clauses(response) ==
    IF ~Truthy(response) \/ (IF IsDict(response) THEN ~HasKey(response, "data") ELSE TRUE)
    THEN Ok(TRUE)
    ELSE IF ~Subscriptable(response.d["data"], "items")
    THEN Err(SubscriptExc(response.d["data"], "items"))
    ELSE IF ~Truthy(response.d["data"].d["items"]) THEN Ok(TRUE)
    ELSE IF ~IsList(response.d["data"].d["items"]) THEN Err(KeyError("0"))
    ELSE IF ~Subscriptable(response.d["data"].d["items"].l[1], "updates")
    THEN Err(SubscriptExc(response.d["data"].d["items"].l[1], "updates"))
    ELSE Ok(FALSE)

\* "data" not in response, for a dict or a list of dicts.
DataNotIn(response) == IF IsDict(response) THEN ~HasKey(response, "data") ELSE TRUE

\* The test for a response without updates: its four clauses, read from left to
\* right, as a truth value or as the exception a subscript raises.
response_is_empty(response) ==
    IF ~Truthy(response) \/ DataNotIn(response) THEN Ok(TRUE)
    ELSE IF ~Subscriptable(response.d["data"], "items")
    THEN Err(SubscriptExc(response.d["data"], "items"))
    ELSE IF ~Truthy(response.d["data"].d["items"]) THEN Ok(TRUE)
    ELSE IF ~IsList(response.d["data"].d["items"]) THEN Err(KeyError("0"))
    ELSE IF ~Subscriptable(response.d["data"].d["items"].l[1], "updates")
    THEN Err(SubscriptExc(response.d["data"].d["items"].l[1], "updates"))
    ELSE Ok(~Truthy(response.d["data"].d["items"].l[1].d["updates"]))

\* A rendering that returns a heading block and then one block per update.
get_item_updates_render_per_update(a, response) ==
    IF ~response_is_empty(response).ok THEN Raise(response_is_empty(response).exc)
    ELSE IF response_is_empty(response).v THEN NoUpdatesFound(a)
    ELSE IF ~IsList(response.d["data"].d["items"].l[1].d["updates"])
    THEN Raise(Exc("TypeError", <<"object is not iterable">>))
    ELSE IF ~FormattedUpdates(response.d["data"].d["items"].l[1].d["updates"].l).ok
    THEN Raise(FormattedUpdates(response.d["data"].d["items"].l[1].d["updates"].l).exc)
    ELSE Return(<<TextContent(<<"Updates for item ">> \o Str(a.itemId) \o <<":\n\n">>)>>
                \o [i \in 1..Len(response.d["data"].d["items"].l[1].d["updates"].l) |->
                      TextContent(UpdateText(
                          response.d["data"].d["items"].l[1].d["updates"].l[i]).v)])

\* item.py handle_monday_get_item_updates, from the response on: the test for
\* an empty response, then the rendering of the updates.  Nothing is caught.
get_item_updates_render(a, response) ==
    IF ~response_is_empty(response).ok THEN Raise(response_is_empty(response).exc)
    ELSE IF response_is_empty(response).v THEN NoUpdatesFound(a)
    ELSE LET updates == response.d["data"].d["items"].l[1].d["updates"]
         IN IF ~IsList(updates)
            THEN Raise(Exc("TypeError",
                           <<"'", TypeName(updates), "' object is not iterable">>))
            ELSE LET text == FormattedUpdates(updates.l)
                 IN IF ~text.ok THEN Raise(text.exc)
                    ELSE Return(<<TextContent(
                            <<"Updates for item ">> \o Str(a.itemId)
                            \o <<":\n\n">> \o text.v)>>)

\* The answer to the query sent with no_log=True: a TypeError sends the query
\* again without it, any other exception escapes.
item_handle_monday_get_item_updates_first(a, ext) ==
    IF ext.k = "exc"
    THEN IF ext.exc.type = "TypeError"
         THEN Call("custom._query", [query |-> get_item_updates_query(a)], "retry", <<>>)
         ELSE Raise(ext.exc)
    ELSE get_item_updates_render(a, ext.v)

\* The answer to the query sent again.
item_handle_monday_get_item_updates_retry(a, ext) ==
    IF ext.k = "exc" THEN Raise(ext.exc) ELSE get_item_updates_render(a, ext.v)

\* item.py handle_monday_update_item_name: the listing query.
update_item_name_query(a) ==
    [root |-> "boards", ids |-> Str(a.boardId),
     items_page |-> <<GroupFilterOpen, "\"">> \o Str(a.groupId)
                    \o <<"\"", GroupFilterClose, LimitOpen, "50">>,
     select |-> "items {id name column_values}"]

\* The try block of handle_monday_update_item_name up to the listing query.
update_item_name_body(a) ==
    Call("custom._query", [query |-> update_item_name_query(a)], "listing", <<>>)

\* The loop without its break: the id of the last item whose name equals
\* itemName.
RECURSIVE find_target_item_id_last(_, _)
find_target_item_id_last(items, itemName) ==
    IF Len(items) = 0 THEN Ok(PyNone)
    ELSE LET name == GetMethod(items[1], "name", PyNone)
             rest == find_target_item_id_last(Tail(items), itemName)
         IN IF ~name.ok THEN name
            ELSE IF ~rest.ok THEN rest
            ELSE IF \E j \in 2..Len(items) :
                        IsDict(items[j]) /\ PyEq(DictGet(items[j], "name", PyNone), itemName)
            THEN rest
            ELSE IF PyEq(name.v, itemName) THEN GetMethod(items[1], "id", PyNone)
            ELSE Ok(PyNone)

\* The loop over the items: the id of the first item whose name equals itemName
\* (None when its id is missing or when no item has the name), or the exception
\* of an item that is no dict, met before a match.
RECURSIVE find_target_item_id(_, _)
find_target_item_id(items, itemName) ==
    IF Len(items) = 0 THEN Ok(PyNone)
    ELSE LET name == GetMethod(items[1], "name", PyNone)
         IN IF ~name.ok THEN name
            ELSE IF PyEq(name.v, itemName) THEN GetMethod(items[1], "id", PyNone)
            ELSE find_target_item_id(Tail(items), itemName)

\* The names without their repetitions: a name is listed where it first occurs.
RECURSIVE item_names_distinct(_)
item_names_distinct(items) ==
    IF Len(items) = 0 THEN Ok(<<>>)
    ELSE LET name == GetMethod(items[Len(items)], "name", PyNone)
             front == item_names_distinct(SubSeq(items, 1, Len(items) - 1))
         IN IF ~front.ok THEN front
            ELSE IF ~name.ok THEN name
            ELSE IF \E j \in 1..Len(front.v) : front.v[j] = name.v THEN front
            ELSE Ok(front.v \o <<name.v>>)

\* [item.get('name') for item in items]
RECURSIVE item_names(_)
item_names(items) ==
    IF Len(items) = 0 THEN Ok(<<>>)
    ELSE LET name == GetMethod(items[1], "name", PyNone)
             rest == IF name.ok THEN item_names(Tail(items)) ELSE name
         IN IF ~rest.ok THEN rest ELSE Ok(<<name.v>> \o rest.v)

\* column_values = {"status": {"label": statusValue}}
status_column_values(a) == PyDict("status" :> PyDict("label" :> a.statusValue))

\* The test written with subscripts, not response["data"]["boards"]: a response
\* without its data or without its boards raises instead of being no board.
no_boards_returned_subscripted(response) ==
    IF ~Truthy(response) THEN Ok(TRUE)
    ELSE IF ~Subscriptable(response, "data") THEN Err(SubscriptExc(response, "data"))
    ELSE IF ~Subscriptable(response.d["data"], "boards")
    THEN Err(SubscriptExc(response.d["data"], "boards"))
    ELSE Ok(~Truthy(response.d["data"].d["boards"]))

\* not response or not response.get("data", {}).get("boards"), as a truth value
\* or as the exception a .get raises.
no_boards_returned(response) ==
    IF ~Truthy(response) THEN Ok(TRUE)
    ELSE IF ~IsDict(response) THEN Err(AttributeError(response, "get"))
    ELSE IF ~IsDict(DictGet(response, "data", EmptyDict))
    THEN Err(AttributeError(DictGet(response, "data", EmptyDict), "get"))
    ELSE Ok(~Truthy(DictGet(DictGet(response, "data", EmptyDict), "boards", PyNone)))

\* not boards or not boards[0].get("items_page", {}).get("items")
no_items_returned(boards) ==
    IF ~Truthy(boards) THEN Ok(TRUE)
    ELSE IF ~IsList(boards) THEN Err(KeyError("0"))
    ELSE IF ~IsDict(boards.l[1]) THEN Err(AttributeError(boards.l[1], "get"))
    ELSE IF ~IsDict(DictGet(boards.l[1], "items_page", EmptyDict))
    THEN Err(AttributeError(DictGet(boards.l[1], "items_page", EmptyDict), "get"))
    ELSE Ok(~Truthy(DictGet(DictGet(boards.l[1], "items_page", EmptyDict),
                            "items", PyNone)))

board_not_found(a) ==
    Return(<<TextContent(<<"Error: Board ">> \o Str(a.boardId)
                         \o <<" not found or no data returned">>)>>)

no_items_found(a) ==
    Return(<<TextContent(<<"Error: No items found in board ">> \o Str(a.boardId)
                         \o <<", group ">> \o Str(a.groupId))>>)

item_not_found(a, names) ==
    Return(<<TextContent(<<"Error: Item with name '">> \o Str(a.itemName)
                         \o <<"' not found in group ">> \o Str(a.groupId)
                         \o <<". Available items: ">> \o Repr(PyList(names)))>>)

\* The try block from the item list to the column update.
update_item_name_scan(a, items) ==
    IF ~IsList(items) THEN Raise(AttributeError(PyStr(""), "get"))
    ELSE LET target == find_target_item_id(items.l, a.itemName)
             names == item_names(items.l)
         IN IF ~target.ok THEN Raise(target.exc)
            ELSE IF ~Truthy(target.v)
            THEN IF ~names.ok THEN Raise(names.exc) ELSE item_not_found(a, names.v)
            ELSE Call("items.change_multiple_column_values",
                      [board_id |-> a.boardId, item_id |-> target.v,
                       column_values |-> status_column_values(a)],
                      "update", [target_item_id |-> target.v])

\* The try block from the listing response to the item list.
update_item_name_listed(a, ext) ==
    IF ext.k = "exc" THEN Raise(ext.exc)
    ELSE IF ~no_boards_returned(ext.v).ok THEN Raise(no_boards_returned(ext.v).exc)
    ELSE IF no_boards_returned(ext.v).v THEN board_not_found(a)
    ELSE LET boards == ext.v.d["data"].d["boards"]
         IN IF ~no_items_returned(boards).ok THEN Raise(no_items_returned(boards).exc)
            ELSE IF no_items_returned(boards).v THEN no_items_found(a)
            ELSE update_item_name_scan(a, boards.l[1].d["items_page"].d["items"])

\* The try block from the answer to the column update on.
update_item_name_updated(a, loc, ext) ==
    IF ext.k = "exc" THEN Raise(ext.exc)
    ELSE Return(<<TextContent(
            <<"Successfully updated item '">> \o Str(a.itemName) \o <<"' (ID: ">>
            \o Str(loc.target_item_id) \o <<") status to '">> \o Str(a.statusValue)
            \o <<"'. Response: ">> \o JsonDumps(ext.v))>>)

\* The handler without its except clause: what the try block raises escapes.
update_item_name_uncaught(a, o) == o

\* except Exception as e: every exception of the try block becomes a text.
update_item_name_except(a, o) ==
    IF o.k = "raise"
    THEN Return(<<TextContent(<<"Error updating item '">> \o Str(a.itemName) \o <<"': ">>
                              \o o.exc.msg)>>)
    ELSE o

(***************************************************************************)
(* The inputs: the requests of the callers and the answers of the client.  *)
(***************************************************************************)
\* A key left out of a dict.
Absent == [t |-> "absent"]
Entry(k, v) == IF v.t = "absent" THEN <<>> ELSE k :> v
Optional(vs) == {Absent} \cup vs
\* A keyword argument left out takes the default of the signature.
Default(v, d) == IF v.t = "absent" THEN d ELSE v

BoardIds == {PyStr("9424670402")}
GroupNames == {"topics", "done"}
StrList(q) == PyList([i \in 1..Len(q) |-> PyStr(q[i])])
GroupIdLists == {StrList(q) : q \in UNION {[1..n -> GroupNames] : n \in 0..MaxGroups}}
Cursors == {PyStr(""), PyStr("MSw5NzI4")}
Limits == {PyInt(50)}

\* Names callTool is given that no case of the match names.
UnknownNames ==
    {"monday-update-item-name", "monday-delete-item", "Monday-Create-Item",
     "monday-create-item ", ""}
ToolNameInputs == CatalogNames \cup UnknownNames

\* The argument bags callTool is given for a tool name.
ArgumentBags(name) ==
    {PyNone} \cup
    CASE name = CREATE_ITEM ->
            {PyDict(("boardId" :> b) @@ ("itemTitle" :> PyStr("Task"))
                    @@ Entry("groupId", g) @@ Entry("parentItemId", p))
                : b \in BoardIds,
                  g \in Optional({PyStr("topics"), PyStr("")}),
                  p \in Optional({PyStr("555")})}
      [] name \in {GET_BOARD_COLUMNS, GET_BOARD_GROUPS} ->
            {PyDict("boardId" :> b) : b \in BoardIds}
      [] name = CREATE_UPDATE ->
            {PyDict(("itemId" :> PyStr("4001")) @@ ("updateText" :> PyStr("hello")))}
      [] name = LIST_BOARDS -> {EmptyDict, PyDict("limit" :> PyInt(5))}
      [] name = LIST_ITEMS_IN_GROUPS ->
            {PyDict(("boardId" :> b) @@ ("groupIds" :> g)
                    @@ Entry("limit", n) @@ Entry("cursor", c))
                : b \in BoardIds, g \in GroupIdLists,
                  n \in Optional(Limits), c \in Optional(Cursors)}
      [] name = LIST_SUBITEMS_IN_ITEMS ->
            {EmptyDict, PyDict("itemIds" :> StrList(<<"4001", "4002">>))}
      [] OTHER -> {EmptyDict, PyDict("boardId" :> PyStr("9424670402"))}

\* Answers of any client call: a raised error, no payload, an empty envelope,
\* an envelope of errors without data, an envelope whose data is null.
AnyAnswers ==
    {Raised(TransportError), Returned(PyNone), Returned(EmptyDict),
     Returned(PyDict("errors" :> PyList(<<PyStr("bad query")>>))),
     Returned(PyDict("data" :> PyNone)), Returned(PyDict("data" :> EmptyDict))}

Envelope(data) == Returned(PyDict("data" :> data))

\* Answers to create_item and create_subitem.
CreatedIds == {PyStr("9876543210"), PyStr("42")}
CreateAnswers ==
    AnyAnswers
    \cup {Envelope(PyDict(k :> PyDict("id" :> id)))
            : k \in {"create_item", "create_subitem"}, id \in CreatedIds}
    \cup {Envelope(PyDict(k :> e))
            : k \in {"create_item", "create_subitem"}, e \in {PyNone, EmptyDict}}

\* Answers to fetch_boards.
Board(id, name) == PyDict(("id" :> PyStr(id)) @@ ("name" :> PyStr(name)))
FetchBoardsAnswers ==
    AnyAnswers
    \cup {Envelope(PyDict("boards" :> bs))
            : bs \in {PyNone, PyList(<<>>), PyList(<<Board("1", "Roadmap")>>),
                      PyList(<<Board("1", "Roadmap"), Board("2", "Bugs")>>),
                      PyList(<<Board("1", "Roadmap"), PyDict("id" :> PyStr("2"))>>)}}

\* Answers to get_groups_by_board and to the queries whose payload is only
\* printed.
PrintedAnswers ==
    AnyAnswers
    \cup {Envelope(PyDict("boards" :> PyList(<<PyDict("groups" :> PyList(<<>>))>>)))}

\* Answers to the query of get-item-updates.
UpdateTemplates == 1..4
Creator == PyDict(("id" :> PyStr("7")) @@ ("name" :> PyStr("Ann")))
UpdateBase(i) ==
    ("id" :> PyStr(ToString(300 + i))) @@ ("body" :> PyStr("<p>ok</p>"))
    @@ ("created_at" :> PyStr("2025-01-01"))
MkUpdate(t, i) ==
    CASE t = 1 -> PyDict(UpdateBase(i) @@ ("creator" :> Creator))
      [] t = 2 -> PyDict(UpdateBase(i) @@ ("creator" :> Creator)
                         @@ ("assets" :> PyList(<<PyDict(("id" :> PyStr("9"))
                                                         @@ ("name" :> PyStr("a.png"))
                                                         @@ ("url" :> PyStr("https://f/a.png")))>>)))
      [] t = 3 -> PyDict(UpdateBase(i) @@ ("creator" :> Creator)
                         @@ ("assets" :> PyList(<<>>)))
      [] t = 4 -> PyDict(UpdateBase(i))
UpdateLists ==
    {PyList([i \in 1..Len(q) |-> MkUpdate(q[i], i)])
        : q \in UNION {[1..n -> UpdateTemplates] : n \in 0..MaxUpdates}}
\* The TypeError of a _query that does not take no_log: raised when the call is
\* bound, before anything is sent.
NoLogRejected == Exc("TypeError", <<"_query() got an unexpected keyword argument 'no_log'">>)
\* A TypeError raised inside _query, while it handles the reply to a query it
\* has sent.
ReplyTypeError == Exc("TypeError", <<"'NoneType' object is not subscriptable">>)
ItemUpdatesAnswers ==
    AnyAnswers
    \cup {Raised(NoLogRejected), Raised(ReplyTypeError)}
    \cup {Envelope(PyDict("items" :> is))
            : is \in {PyNone, PyList(<<>>), PyList(<<EmptyDict>>),
                      PyList(<<PyDict("updates" :> PyNone)>>)}}
    \cup {Envelope(PyDict("items" :> PyList(<<PyDict("updates" :> us)>>)))
            : us \in UpdateLists}

\* Answers to the listing query of update-item-name.  An item of the list is
\* drawn from templates; the id of an item tells its position in the list.
ItemTemplates == 1..9
ItemId(i) == PyStr(ToString(1000 + i))
MkItem(t, i) ==
    CASE t = 1 -> PyDict(("id" :> ItemId(i)) @@ ("name" :> PyStr("Alpha")))
      [] t = 2 -> PyDict(("id" :> ItemId(i)) @@ ("name" :> PyStr("McpTest")))
      [] t = 3 -> PyDict(("id" :> ItemId(i)) @@ ("name" :> PyStr("Beta")))
      [] t = 4 -> PyDict("name" :> PyStr("McpTest"))
      [] t = 5 -> PyDict(("id" :> PyStr("")) @@ ("name" :> PyStr("McpTest")))
      [] t = 6 -> PyDict(("id" :> ItemId(i)) @@ ("name" :> PyStr("mcptest")))
      [] t = 7 -> PyDict(("id" :> ItemId(i)) @@ ("name" :> PyStr("McpTes")))
      [] t = 8 -> PyDict("id" :> ItemId(i))
      [] t = 9 -> PyNone
ItemLists ==
    {PyList([i \in 1..Len(q) |-> MkItem(q[i], i)])
        : q \in UNION {[1..n -> ItemTemplates] : n \in 0..MaxItems}}
BoardsEnvelope(boards) == Envelope(PyDict("boards" :> boards))
ListingAnswers ==
    AnyAnswers
    \cup {Returned(PyList(<<PyStr("x")>>))}
    \cup {BoardsEnvelope(bs)
            : bs \in {PyNone, PyList(<<>>), PyList(<<EmptyDict>>), PyList(<<PyNone>>),
                      PyList(<<PyDict("items_page" :> PyNone)>>),
                      PyList(<<PyDict("items_page" :> EmptyDict)>>),
                      PyList(<<PyDict("items_page" :> PyDict("items" :> PyNone))>>)}}
    \cup {BoardsEnvelope(PyList(<<PyDict("items_page" :> PyDict("items" :> is))>>))
            : is \in ItemLists}

\* Answers to change_multiple_column_values.
ColumnUpdateAnswers ==
    {Raised(TransportError), Returned(PyNone),
     Envelope(PyDict("change_multiple_column_values" :> PyDict("id" :> PyStr("1002"))))}

ItemNames == {PyStr("McpTest"), PyStr("Gamma")}
StatusValues == {PyStr("Done"), PyStr("Stuck")}

(***************************************************************************)
(* The state machine.                                                      *)
(*   pc     "idle", "awaiting" (a client call is out) or "done"            *)
(*   inv    the request: how the handler was entered, the tool name and    *)
(*          the argument bag (callTool) or the keyword arguments (direct)  *)
(*   frame  the running handler, its arguments, its position, its locals   *)
(*   calls  the client calls issued so far, in order                       *)
(*   answers what the client answered to each call, in the same order      *)
(*   result what the caller got: a returned content list, or an exception  *)
(*   log    the entries written to the logger                              *)
(***************************************************************************)
NoFrame == [entry |-> "none", h |-> "none", a |-> <<>>, stage |-> "none", loc |-> <<>>]

\* An invocation that has not been made yet.
NotInvoked ==
    [pc |-> "idle", inv |-> [entry |-> "none", name |-> "", arguments |-> PyNone],
     frame |-> NoFrame, calls |-> <<>>, answers |-> <<>>, result |-> [kind |-> "none"]]

Init ==
    /\ pc = "idle"
    /\ inv = [entry |-> "none", name |-> "", arguments |-> PyNone]
    /\ frame = NoFrame
    /\ calls = <<>>
    /\ answers = <<>>
    /\ result = [kind |-> "none"]
    /\ log = <<>>
    /\ catalog = ServerTools
    /\ cur = 1
    /\ other = NotInvoked


Frame(entry, h, a) == [entry |-> entry, h |-> h, a |-> a, stage |-> "start", loc |-> <<>>]

\* listTools() through handle_list_tools of tools.py: the caller gets the
\* catalog.
ListTools ==
    /\ pc = "idle"
    /\ inv' = [entry |-> "listTools", name |-> "", arguments |-> PyNone]
    /\ pc' = "done"
    /\ result' = [kind |-> "listed", tools |-> catalog]
    /\ UNCHANGED <<frame, calls, answers, log, catalog, cur, other>>

\* callTool(name, arguments) through handle_call_tool of tools.py.
CallTool ==
    /\ pc = "idle"
    /\ \E name \in ToolNameInputs :
         \E arguments \in ArgumentBags(name) :
            LET d == handle_call_tool(name, arguments)
            IN /\ inv' = [entry |-> "callTool", name |-> name, arguments |-> arguments]
               /\ Step(Frame("callTool", d.h, d.a), name, d.o)
               /\ UNCHANGED <<answers, catalog, cur, other>>

\* A direct call of a handler of item.py with keyword arguments a.
Invoke(h, a, o) ==
    /\ inv' = [entry |-> "direct", name |-> h, arguments |-> a]
    /\ Step(Frame("direct", h, a), h, o)
    /\ UNCHANGED <<answers, catalog, cur, other>>

InvokeCreateItem ==
    /\ pc = "idle"
    /\ \E b \in BoardIds, g \in {PyNone, PyStr("topics"), PyStr("")},
          p \in {PyNone, PyStr("555")},
          cv \in {PyNone, PyDict("status" :> PyStr("Done"))} :
         LET a == [boardId |-> b, itemTitle |-> PyStr("Task"), groupId |-> g,
                   parentItemId |-> p, columnValues |-> cv]
         IN Invoke("item.handle_monday_create_item", a, item_handle_monday_create_item(a))

InvokeListItemsInGroups ==
    /\ pc = "idle"
    /\ \E b \in BoardIds, g \in {PyNone} \cup GroupIdLists, n \in Limits,
          c \in Optional(Cursors) :
         LET a == [boardId |-> b, groupIds |-> g, limit |-> n,
                   cursor |-> Default(c, PyNone)]
         IN Invoke("item.handle_monday_list_items_in_groups", a,
                   item_handle_monday_list_items_in_groups(a))

InvokeGetItemUpdates ==
    /\ pc = "idle"
    /\ \E id \in {PyStr("4001")}, n \in Optional({PyInt(5)}) :
         LET a == [itemId |-> id, limit |-> Default(n, PyInt(25))]
         IN Invoke("item.handle_monday_get_item_updates", a,
                   item_handle_monday_get_item_updates(a))

InvokeUpdateItemName ==
    /\ pc = "idle"
    /\ \E b \in BoardIds, name \in ItemNames, status \in StatusValues :
         LET a == [boardId |-> b, groupId |-> PyStr("topics"), itemName |-> name,
                   statusValue |-> status]
         IN Invoke("item.handle_monday_update_item_name", a,
                   update_item_name_except(a, update_item_name_body(a)))

\* The client answers the call that is out, and the handler goes on from its
\* position: Awaiting tells the handler and the position, Resume takes the
\* handler's next step o after the answer ext.
Awaiting(h, stage) == pc = "awaiting" /\ frame.h = h /\ frame.stage = stage
Resume(ext, o) ==
    /\ answers' = Append(answers, ext)
    /\ Step(frame, inv.name, o)
    /\ UNCHANGED <<inv, catalog, cur, other>>

ToolsCreateItemAnswered ==
    /\ Awaiting("tools.handle_monday_create_item", "created")
    /\ \E ext \in CreateAnswers :
         Resume(ext, tools_handle_monday_create_item_created(frame.a, ext))

ToolsGetBoardGroupsAnswered ==
    /\ Awaiting("tools.handle_monday_get_board_groups", "fetched")
    /\ \E ext \in PrintedAnswers :
         Resume(ext, tools_handle_monday_get_board_groups_fetched(frame.a, ext))

ToolsGetBoardColumnsAnswered ==
    /\ Awaiting("tools.handle_monday_get_board_columns", "fetched")
    /\ \E ext \in PrintedAnswers :
         Resume(ext, tools_handle_monday_get_board_columns_fetched(frame.a, ext))

ToolsCreateUpdateAnswered ==
    /\ Awaiting("tools.handle_monday_create_update", "created")
    /\ \E ext \in AnyAnswers :
         Resume(ext, tools_handle_monday_create_update_created(frame.a, ext))

ToolsListBoardsAnswered ==
    /\ Awaiting("tools.handle_monday_list_boards", "fetched")
    /\ \E ext \in FetchBoardsAnswers :
         Resume(ext, tools_handle_monday_list_boards_fetched(frame.a, ext))

ToolsListItemsInGroupsAnswered ==
    /\ Awaiting("tools.handle_monday_list_items_in_groups", "fetched")
    /\ \E ext \in PrintedAnswers :
         Resume(ext, tools_handle_monday_list_items_in_groups_fetched(frame.a, ext))

ToolsListSubitemsInItemsAnswered ==
    /\ Awaiting("tools.handle_monday_list_subitems_in_items", "fetched")
    /\ \E ext \in PrintedAnswers :
         Resume(ext, tools_handle_monday_list_subitems_in_items_fetched(frame.a, ext))

ItemCreateItemAnswered ==
    /\ Awaiting("item.handle_monday_create_item", "created")
    /\ \E ext \in CreateAnswers :
         Resume(ext, item_handle_monday_create_item_created(frame.a, ext))

ItemListItemsInGroupsAnswered ==
    /\ Awaiting("item.handle_monday_list_items_in_groups", "fetched")
    /\ \E ext \in PrintedAnswers :
         Resume(ext, item_handle_monday_list_items_in_groups_fetched(frame.a, ext))

GetItemUpdatesAnswered ==
    /\ Awaiting("item.handle_monday_get_item_updates", "first")
    /\ \E ext \in ItemUpdatesAnswers :
         Resume(ext, item_handle_monday_get_item_updates_first(frame.a, ext))

GetItemUpdatesAnsweredAgain ==
    /\ Awaiting("item.handle_monday_get_item_updates", "retry")
    /\ \E ext \in ItemUpdatesAnswers :
         Resume(ext, item_handle_monday_get_item_updates_retry(frame.a, ext))

UpdateItemNameListed ==
    /\ Awaiting("item.handle_monday_update_item_name", "listing")
    /\ \E ext \in ListingAnswers :
         Resume(ext, update_item_name_except(frame.a,
                         update_item_name_listed(frame.a, ext)))

UpdateItemNameUpdated ==
    /\ Awaiting("item.handle_monday_update_item_name", "update")
    /\ \E ext \in ColumnUpdateAnswers :
         Resume(ext, update_item_name_except(frame.a,
                         update_item_name_updated(frame.a, frame.loc, ext)))

Next ==
    \/ ListTools
    \/ CallTool
    \/ InvokeCreateItem
    \/ InvokeListItemsInGroups
    \/ InvokeGetItemUpdates
    \/ InvokeUpdateItemName
    \/ ToolsCreateItemAnswered
    \/ ToolsGetBoardGroupsAnswered
    \/ ToolsGetBoardColumnsAnswered
    \/ ToolsCreateUpdateAnswered
    \/ ToolsListBoardsAnswered
    \/ ToolsListItemsInGroupsAnswered
    \/ ToolsListSubitemsInItemsAnswered
    \/ ItemCreateItemAnswered
    \/ ItemListItemsInGroupsAnswered
    \/ GetItemUpdatesAnswered
    \/ GetItemUpdatesAnsweredAgain
    \/ UpdateItemNameListed
    \/ UpdateItemNameUpdated

Spec == Init /\ [][Next]_vars

(***************************************************************************)
(* Two invocations at once.  The server runs every request as a coroutine  *)
(* of its own: the arguments and the locals of a handler belong to the     *)
(* invocation, the logger and the catalog are shared.  The variables pc,   *)
(* inv, frame, calls, answers and result are those of the invocation that  *)
(* runs, other holds those of the one that waits, and cur tells which of   *)
(* the two runs.  An invocation gives way to the other one between its     *)
(* steps.                                                                  *)
(***************************************************************************)
Running ==
    [pc |-> pc, inv |-> inv, frame |-> frame, calls |-> calls, answers |-> answers,
     result |-> result]

\* The frame of the handler is not kept with the invocation: the invocation
\* that is resumed goes on with the arguments and locals of the one that ran.
Switch_shared_frame ==
    /\ cur' = 3 - cur
    /\ other' = Running
    /\ pc' = other.pc
    /\ inv' = other.inv
    /\ frame' = frame
    /\ calls' = other.calls
    /\ answers' = other.answers
    /\ result' = other.result
    /\ UNCHANGED <<log, catalog>>

\* The invocation that runs gives way to the other one, which goes on where it
\* was with what is its own.
Switch ==
    /\ cur' = 3 - cur
    /\ other' = Running
    /\ pc' = other.pc
    /\ inv' = other.inv
    /\ frame' = other.frame
    /\ calls' = other.calls
    /\ answers' = other.answers
    /\ result' = other.result
    /\ UNCHANGED <<log, catalog>>

\* The requests and the answers two invocations are run with.
ConcurrentToolNames == {CREATE_ITEM, LIST_BOARDS, "monday-update-item-name"}
ConcurrentBags(name) ==
    CASE name = CREATE_ITEM ->
            {PyDict(("boardId" :> PyStr("9424670402")) @@ ("itemTitle" :> PyStr("Task"))
                    @@ ("groupId" :> PyStr("topics")) @@ Entry("parentItemId", p))
                : p \in Optional({PyStr("555")})}
      [] OTHER -> {EmptyDict}
ConcurrentCreateAnswers ==
    {Raised(TransportError), Envelope(PyDict("create_item" :> PyDict("id" :> PyStr("42"))))}
ConcurrentFetchBoardsAnswers ==
    {Raised(TransportError), Envelope(PyDict("boards" :> PyList(<<Board("1", "Roadmap")>>)))}
ConcurrentListingAnswers ==
    {Raised(TransportError), Returned(PyNone),
     BoardsEnvelope(PyList(<<PyDict("items_page" :>
        PyDict("items" :> PyList(<<MkItem(1, 1), MkItem(2, 2)>>)))>>)),
     BoardsEnvelope(PyList(<<PyDict("items_page" :>
        PyDict("items" :> PyList(<<MkItem(4, 1)>>)))>>))}

ConcurrentCallTool ==
    /\ pc = "idle"
    /\ \E name \in ConcurrentToolNames :
         \E arguments \in ConcurrentBags(name) :
            LET d == handle_call_tool(name, arguments)
            IN /\ inv' = [entry |-> "callTool", name |-> name, arguments |-> arguments]
               /\ Step(Frame("callTool", d.h, d.a), name, d.o)
               /\ UNCHANGED <<answers, catalog, cur, other>>

ConcurrentUpdateItemName ==
    /\ pc = "idle"
    /\ \E name \in ItemNames :
         LET a == [boardId |-> PyStr("9424670402"), groupId |-> PyStr("topics"),
                   itemName |-> name, statusValue |-> PyStr("Done")]
         IN Invoke("item.handle_monday_update_item_name", a,
                   update_item_name_except(a, update_item_name_body(a)))

ConcurrentCreateItemAnswered ==
    /\ Awaiting("tools.handle_monday_create_item", "created")
    /\ \E ext \in ConcurrentCreateAnswers :
         Resume(ext, tools_handle_monday_create_item_created(frame.a, ext))

ConcurrentListBoardsAnswered ==
    /\ Awaiting("tools.handle_monday_list_boards", "fetched")
    /\ \E ext \in ConcurrentFetchBoardsAnswers :
         Resume(ext, tools_handle_monday_list_boards_fetched(frame.a, ext))

ConcurrentListed ==
    /\ Awaiting("item.handle_monday_update_item_name", "listing")
    /\ \E ext \in ConcurrentListingAnswers :
         Resume(ext, update_item_name_except(frame.a, update_item_name_listed(frame.a, ext)))

ConcurrentUpdated ==
    /\ Awaiting("item.handle_monday_update_item_name", "update")
    /\ \E ext \in ColumnUpdateAnswers :
         Resume(ext, update_item_name_except(frame.a,
                        update_item_name_updated(frame.a, frame.loc, ext)))

NextConcurrent ==
    \/ ListTools
    \/ ConcurrentCallTool
    \/ ConcurrentUpdateItemName
    \/ ConcurrentCreateItemAnswered
    \/ ConcurrentListBoardsAnswered
    \/ ConcurrentListed
    \/ ConcurrentUpdated
    \/ Switch

SpecConcurrent == Init /\ [][NextConcurrent]_vars

(***************************************************************************)
(* What the properties are stated with.                                    *)
(***************************************************************************)
H_ToolsCreateItem == "tools.handle_monday_create_item"
H_ItemCreateItem == "item.handle_monday_create_item"
H_ToolsListItems == "tools.handle_monday_list_items_in_groups"
H_ItemListItems == "item.handle_monday_list_items_in_groups"
H_GetItemUpdates == "item.handle_monday_get_item_updates"
H_UpdateItemName == "item.handle_monday_update_item_name"

\* The argument k of the request: read from the bag under callTool, the keyword
\* argument of a direct call.
RequestArg(k) ==
    IF inv.entry = "callTool" THEN DictGet(inv.arguments, k, PyNone) ELSE inv.arguments[k]

IsSet(v) == v.t # "None"
CallsOf(op) == {i \in 1..Len(calls) : calls[i].op = op}
ReturnedText(text) == result = [kind |-> "returned", content |-> <<TextContent(text)>>]

\* The listing answer of update-item-name carries a list of items.
HasItemList(ext) ==
    /\ ext.k = "ok"
    /\ Subscriptable(ext.v, "data")
    /\ Subscriptable(ext.v.d["data"], "boards")
    /\ IsList(ext.v.d["data"].d["boards"])
    /\ Len(ext.v.d["data"].d["boards"].l) > 0
    /\ Subscriptable(ext.v.d["data"].d["boards"].l[1], "items_page")
    /\ Subscriptable(ext.v.d["data"].d["boards"].l[1].d["items_page"], "items")
    /\ IsList(ext.v.d["data"].d["boards"].l[1].d["items_page"].d["items"])
ItemsOf(ext) == ext.v.d["data"].d["boards"].l[1].d["items_page"].d["items"].l
AllItems(items) == \A i \in 1..Len(items) : IsDict(items[i])
NameAt(items, i) == IF IsDict(items[i]) THEN DictGet(items[i], "name", PyNone) ELSE PyNone
IdAt(items, i) == IF IsDict(items[i]) THEN DictGet(items[i], "id", PyNone) ELSE PyNone
\* The positions of the items whose display name is exactly the requested one.
Matches(items, name) == {i \in 1..Len(items) : NameAt(items, i) = name}
FirstMatch(items, name) ==
    CHOOSE i \in Matches(items, name) : \A j \in Matches(items, name) : i <= j
ColumnUpdate == "items.change_multiple_column_values"
ExampleNames == <<PyStr("Alpha"), PyStr("McpTest"), PyStr("Beta"), PyStr("McpTest")>>

\* C1: callTool with a name that is not in the catalog ends at once with the
\* raised ValueError "Undefined behaviour for tool: <name>": no handler is
\* invoked, no client call is made, nothing is returned.
C1_UnknownToolFailsClosed ==
    (inv.entry = "callTool" /\ inv.name \notin CatalogNames) =>
        /\ pc = "done"
        /\ result = [kind |-> "raised",
                     exc |-> Exc("ValueError",
                                 <<"Undefined behaviour for tool: ", inv.name>>)]
        /\ frame.h = "none"
        /\ calls = <<>>

C1_Witness ==
    /\ inv.entry = "callTool"
    /\ inv.name = "monday-update-item-name"
    /\ IsDict(inv.arguments)
    /\ result.kind = "raised"

\* C2: create-item calls the client if and only if exactly one of groupId and
\* parentItemId is set (is not None): with only groupId one create_item call,
\* with only parentItemId one create_subitem call, and with both or neither no
\* call and the conflict text as a returned result.
C2_CreateItemExclusive ==
    frame.h \in {H_ToolsCreateItem, H_ItemCreateItem} =>
        LET g == IsSet(RequestArg("groupId"))
            p == IsSet(RequestArg("parentItemId"))
        IN /\ (g /\ ~p) =>
                Len(calls) = 1 /\ CallsOf("items.create_item") = {1}
           /\ (p /\ ~g) =>
                Len(calls) = 1 /\ CallsOf("items.create_subitem") = {1}
           /\ (g = p) =>
                /\ calls = <<>>
                /\ pc = "done"
                /\ ReturnedText(<<"You can set either groupId or parentItemId argument, but not both.">>)

C2_Witness ==
    /\ frame.h = H_ToolsCreateItem
    /\ IsSet(RequestArg("parentItemId"))
    /\ ~IsSet(RequestArg("groupId"))
    /\ pc = "done"
    /\ Len(calls) = 1
    /\ calls[1].op = "items.create_subitem"

\* C3: update-item-name issues its column update only against the id of the
\* first item, in the order of the returned list, whose name is exactly the
\* requested name; and it does issue it when that item has a non-empty id and
\* the entries before it are items.  An item whose name differs in case or is
\* a part of the requested name is no match.
C3_FirstExactMatch ==
    (frame.h = H_UpdateItemName /\ Len(answers) >= 1) =>
        LET ext == answers[1]
            name == RequestArg("itemName")
        IN /\ \A c \in CallsOf(ColumnUpdate) :
                /\ HasItemList(ext)
                /\ Matches(ItemsOf(ext), name) # {}
                /\ calls[c].params.item_id
                     = IdAt(ItemsOf(ext), FirstMatch(ItemsOf(ext), name))
           /\ (/\ HasItemList(ext)
               /\ Matches(ItemsOf(ext), name) # {}
               /\ Truthy(IdAt(ItemsOf(ext), FirstMatch(ItemsOf(ext), name)))
               /\ \A j \in 1..FirstMatch(ItemsOf(ext), name) : IsDict(ItemsOf(ext)[j]))
              => /\ CallsOf(ColumnUpdate) = {2}
                 /\ Len(calls) = 2

C3_Witness ==
    /\ frame.h = H_UpdateItemName
    /\ pc = "done"
    /\ Len(answers) = 2
    /\ HasItemList(answers[1])
    /\ [i \in 1..Len(ItemsOf(answers[1])) |-> NameAt(ItemsOf(answers[1]), i)] = ExampleNames
    /\ RequestArg("itemName") = PyStr("McpTest")
    /\ calls[2].params.item_id = PyStr("1002")
    /\ IdAt(ItemsOf(answers[1]), 4) = PyStr("1004")

\* The list of names as Python prints it: ['Alpha', None, ...].
PrintedNames(items) ==
    <<"[">>
    \o JoinPieces([i \in 1..Len(items) |->
                     IF NameAt(items, i) = PyNone THEN <<"None">>
                     ELSE <<"'", NameAt(items, i).s, "'">>], ", ")
    \o <<"]">>

\* C4: when the listing returns a non-empty list of items none of which has the
\* requested name, update-item-name returns the not-found text that lists the
\* names of all returned items in the returned order, duplicates kept, and
\* issues no column update.
C4_NotFoundListsNames ==
    (/\ frame.h = H_UpdateItemName
     /\ Len(answers) >= 1
     /\ HasItemList(answers[1])
     /\ Len(ItemsOf(answers[1])) > 0
     /\ AllItems(ItemsOf(answers[1]))
     /\ Matches(ItemsOf(answers[1]), RequestArg("itemName")) = {})
    => /\ pc = "done"
       /\ Len(calls) = 1
       /\ CallsOf(ColumnUpdate) = {}
       /\ ReturnedText(<<"Error: Item with name '", RequestArg("itemName").s,
                         "' not found in group ", RequestArg("groupId").s,
                         ". Available items: ">>
                       \o PrintedNames(ItemsOf(answers[1])))

C4_Witness ==
    /\ frame.h = H_UpdateItemName
    /\ pc = "done"
    /\ Len(answers) = 1
    /\ HasItemList(answers[1])
    /\ [i \in 1..Len(ItemsOf(answers[1])) |-> NameAt(ItemsOf(answers[1]), i)] = ExampleNames
    /\ RequestArg("itemName") = PyStr("Gamma")
    /\ result.kind = "returned"
    /\ Contains(result.content[1].text,
                <<"[", "'", "Alpha", "'", ", ", "'", "McpTest", "'", ", ", "'", "Beta",
                  "'", ", ", "'", "McpTest", "'", "]">>)

\* The shapes of a listing answer without boards: no response at all (None or
\* an empty payload), a payload without data, data without boards or with an
\* empty list of boards.
NoBoardsShape(v) ==
    \/ ~Truthy(v)
    \/ /\ IsDict(v)
       /\ \/ ~HasKey(v, "data")
          \/ /\ IsDict(v.d["data"])
             /\ ~Truthy(DictGet(v.d["data"], "boards", PyNone))

\* The shapes of a listing answer whose first board has no items: no items
\* page, or a page whose items are absent, null or an empty list.
NoItemsShape(v) ==
    /\ Subscriptable(v, "data")
    /\ Subscriptable(v.d["data"], "boards")
    /\ IsList(v.d["data"].d["boards"])
    /\ Len(v.d["data"].d["boards"].l) > 0
    /\ IsDict(v.d["data"].d["boards"].l[1])
    /\ \/ ~HasKey(v.d["data"].d["boards"].l[1], "items_page")
       \/ /\ IsDict(v.d["data"].d["boards"].l[1].d["items_page"])
          /\ ~Truthy(DictGet(v.d["data"].d["boards"].l[1].d["items_page"],
                             "items", PyNone))

C6_NoExceptionEscapes ==
    frame.h = H_UpdateItemName =>
        /\ result.kind # "raised"
        /\ Len(calls) <= 2
        /\ (Len(answers) = Len(calls) \/ pc = "done") =>
              /\ pc = "done"
              /\ result.kind = "returned"
              /\ Len(result.content) = 1
              /\ result.content[1].type = "text"
        /\ \A i \in 1..Len(answers) :
              answers[i].k = "exc" =>
                  /\ pc = "done"
                  /\ ReturnedText(<<"Error updating item '", RequestArg("itemName").s,
                                    "': ">> \o answers[i].exc.msg)

C6_Witness ==
    /\ frame.h = H_UpdateItemName
    /\ pc = "done"
    /\ Len(answers) = 2
    /\ answers[2].k = "exc"
    /\ result.kind = "returned"
    /\ Contains(result.content[1].text, <<"Error updating item '", "McpTest", "': ">>)

\* C7: on a name match (a list of items of which at least one has the
\* requested name) update-item-name ends having made exactly two client calls,
\* the listing query and then one column update; the update is issued only
\* after the listing was answered, for the given board and the id of the first
\* match, with the single column status set to the label statusValue.
C7_TwoCallsOnNameMatch ==
    (/\ frame.h = H_UpdateItemName
     /\ Len(answers) >= 1
     /\ HasItemList(answers[1])
     /\ AllItems(ItemsOf(answers[1]))
     /\ Matches(ItemsOf(answers[1]), RequestArg("itemName")) # {})
    => /\ Len(calls) = 2
       /\ calls[1].op = "custom._query"
       /\ calls[2] =
            [op |-> ColumnUpdate,
             params |->
               [board_id |-> RequestArg("boardId"),
                item_id |-> IdAt(ItemsOf(answers[1]),
                                 FirstMatch(ItemsOf(answers[1]), RequestArg("itemName"))),
                column_values |->
                  PyDict("status" :> PyDict("label" :> RequestArg("statusValue")))]]

\* The compare values of a group filter as they are written: each id between
\* double quotes, in the order given, separated by ", ".
QuotedInOrder(ids) ==
    [j \in 1..(4 * Len(ids) - 1) |->
        CASE j % 4 = 2 -> ids[(j + 2) \div 4].s
          [] j % 4 = 0 -> ", "
          [] OTHER -> "\""]

\* C8: the items_page parameters of list-items-in-groups, in tools.py and in
\* item.py.  With a cursor (a non-empty one), whatever groupIds is, they are
\* the cursor and the limit and hold no group filter; without a cursor and with
\* a non-empty groupIds they are the group filter over exactly the given ids in
\* the given order, and the limit, and hold no cursor.
C8_PageParams ==
    (frame.h \in {H_ToolsListItems, H_ItemListItems} /\ Len(calls) >= 1) =>
        /\ Truthy(RequestArg("cursor")) =>
              /\ calls[1].params.query.items_page
                   = <<CursorOpen, RequestArg("cursor").s, "\"", LimitOpen>>
                     \o Str(frame.a.limit)
              /\ ~Contains(calls[1].params.query.items_page, <<GroupFilterOpen>>)
        /\ (~Truthy(RequestArg("cursor")) /\ Truthy(RequestArg("groupIds"))) =>
              /\ calls[1].params.query.items_page
                   = <<GroupFilterOpen>> \o QuotedInOrder(RequestArg("groupIds").l)
                     \o <<GroupFilterClose, LimitOpen>> \o Str(frame.a.limit)
              /\ ~Contains(calls[1].params.query.items_page, <<CursorOpen>>)

C8_Witness ==
    /\ frame.h = H_ToolsListItems
    /\ pc = "done"
    /\ RequestArg("cursor") = PyStr("MSw5NzI4")
    /\ RequestArg("groupIds") = StrList(<<"topics", "done">>)
    /\ RequestArg("limit") = PyInt(50)
    /\ calls[1].params.query.items_page
         = <<CursorOpen, "MSw5NzI4", "\"", LimitOpen, "5", "0">>

\* The responses get-item-updates takes for one without updates: an empty one
\* (None or an empty payload), one without a data entry, one whose items are an
\* empty list or null, one whose first item has an empty list of updates or
\* null.
NoUpdatesShape(v) ==
    \/ ~Truthy(v)
    \/ IsDict(v) /\ ~HasKey(v, "data")
    \/ /\ Subscriptable(v, "data")
       /\ Subscriptable(v.d["data"], "items")
       /\ \/ ~Truthy(v.d["data"].d["items"])
          \/ /\ IsList(v.d["data"].d["items"])
             /\ Subscriptable(v.d["data"].d["items"].l[1], "updates")
             /\ ~Truthy(v.d["data"].d["items"].l[1].d["updates"])

CreatedEntry == IF IsSet(RequestArg("groupId")) THEN "create_item" ELSE "create_subitem"

\* A create response that carries an id under the entry of what was created.
CarriesId(ext) ==
    /\ ext.k = "ok"
    /\ Subscriptable(ext.v, "data")
    /\ Subscriptable(ext.v.d["data"], CreatedEntry)
    /\ Subscriptable(ext.v.d["data"].d[CreatedEntry], "id")
    /\ ext.v.d["data"].d[CreatedEntry].d["id"].t = "str"

\* C10: when the create call of create-item (tools.py and item.py) is answered
\* with an id, under create_item when a group was given and under
\* create_subitem when a parent item was given, the handler returns a text
\* that contains <workspace>/boards/<boardId>/pulses/<id>, boardId being the
\* caller's and id the response's, unchanged.
C10_CreatedLink ==
    (/\ frame.h \in {H_ToolsCreateItem, H_ItemCreateItem}
     /\ Len(answers) = 1
     /\ CarriesId(answers[1]))
    => /\ pc = "done"
       /\ result.kind = "returned"
       /\ Len(result.content) = 1
       /\ Contains(result.content[1].text,
                   <<MONDAY_WORKSPACE_URL, "/boards/", RequestArg("boardId").s, "/pulses/",
                     answers[1].v.d["data"].d[CreatedEntry].d["id"].s>>)

C10_Witness ==
    /\ frame.h = H_ToolsCreateItem
    /\ pc = "done"
    /\ IsSet(RequestArg("parentItemId"))
    /\ answers = <<Envelope(PyDict("create_subitem" :> PyDict("id" :> PyStr("9876543210"))))>>
    /\ result.kind = "returned"
    /\ Contains(result.content[1].text,
                <<"/boards/", "9424670402", "/pulses/", "9876543210">>)

\* C11: under callTool an exception of a handler is never swallowed.  A client
\* call that raises inside a handler of tools.py, and a payload without data
\* under get-board-groups or list-boards, end the invocation with that
\* exception raised to the caller, never with a returned result; and whenever
\* callTool raises, the log holds exactly one entry, "Error calling tool
\* <name>: <error>", written for that exception.
C11_LogsAndPropagates ==
    inv.entry = "callTool" =>
        /\ \A i \in 1..Len(answers) :
              answers[i].k = "exc" =>
                  /\ pc = "done"
                  /\ result = [kind |-> "raised", exc |-> answers[i].exc]
        /\ (/\ inv.name \in {GET_BOARD_GROUPS, LIST_BOARDS}
            /\ Len(answers) = 1
            /\ answers[1].k = "ok"
            /\ ~Subscriptable(answers[1].v, "data"))
           => /\ pc = "done"
              /\ result.kind = "raised"
              /\ result.exc.type \in {"KeyError", "TypeError"}
        /\ result.kind = "raised" =>
              log = <<[level |-> "error",
                       text |-> <<"Error calling tool ", inv.name, ": ">>
                                \o result.exc.msg]>>
        /\ result.kind # "raised" => log = <<>>

C11_Witness ==
    /\ inv.entry = "callTool"
    /\ inv.name = CREATE_UPDATE
    /\ pc = "done"
    /\ answers = <<Raised(TransportError)>>
    /\ result = [kind |-> "raised", exc |-> TransportError]
    /\ Len(log) = 1
    /\ Contains(log[1].text, <<"Error calling tool ", CREATE_UPDATE, ": ">>)

\* The argument bag holds every argument the schema of the tool requires, and
\* no argument of it is an empty string.
ValidArguments(name, arguments) ==
    /\ IsDict(arguments)
    /\ \A k \in RequiredArguments(name) : HasKey(arguments, k)
    /\ \A k \in DOMAIN arguments.d : arguments.d[k] # PyStr("")

\* C12: callTool of a tool of the catalog, with every required argument in the
\* bag, never raises: whatever the client answers (a raised error, a payload
\* without data), the invocation ends with a returned result.
C12_CatalogToolNeverRaises ==
    (/\ inv.entry = "callTool"
     /\ inv.name \in CatalogNames
     /\ ValidArguments(inv.name, inv.arguments))
    => result.kind # "raised"

\* The handler each tool of the catalog stands for.
HandlerOf(name) ==
    CASE name = CREATE_ITEM -> H_ToolsCreateItem
      [] name = GET_BOARD_COLUMNS -> "tools.handle_monday_get_board_columns"
      [] name = GET_BOARD_GROUPS -> "tools.handle_monday_get_board_groups"
      [] name = CREATE_UPDATE -> "tools.handle_monday_create_update"
      [] name = LIST_BOARDS -> "tools.handle_monday_list_boards"
      [] name = LIST_ITEMS_IN_GROUPS -> H_ToolsListItems
      [] name = LIST_SUBITEMS_IN_ITEMS -> "tools.handle_monday_list_subitems_in_items"
      [] OTHER -> "none"

\* C13: the names of the catalog are pairwise distinct, and callTool (given an
\* argument bag) runs a handler exactly for the names of the catalog: a name of
\* the catalog is routed to the one handler of that tool, a name outside the
\* catalog to none.
C13_CatalogIsDispatched ==
    /\ Cardinality(CatalogNames) = Len(ServerTools)
    /\ (inv.entry = "callTool" /\ IsDict(inv.arguments)) =>
          /\ inv.name \in CatalogNames <=> frame.h # "none"
          /\ frame.h = HandlerOf(inv.name)

C13_Witness ==
    /\ inv.entry = "callTool"
    /\ inv.name = LIST_SUBITEMS_IN_ITEMS
    /\ IsDict(inv.arguments)
    /\ frame.h = "tools.handle_monday_list_subitems_in_items"
    /\ Len(calls) = 1

\* The calls that went out to the service: every call made, but for a _query
\* that was rejected for its no_log argument before anything was sent.
SentCalls == {i \in 1..Len(calls) : ~(i <= Len(answers) /\ answers[i] = Raised(NoLogRejected))}

\* C14: a handler other than update-item-name sends at most one call to the
\* service per invocation, and a call that failed is the last thing it does:
\* the invocation ends with it and nothing is sent after it.
C14_AtMostOneCall ==
    (frame.h # "none" /\ frame.h # H_UpdateItemName) =>
        /\ Cardinality(SentCalls) <= 1
        /\ \A i \in SentCalls :
              (i <= Len(answers) /\ answers[i].k = "exc") => (pc = "done" /\ Len(calls) = i)

\* C15: when callTool runs list-items-in-groups with an argument bag that has
\* no limit, the query the handler sends asks for the default of the handler,
\* 100 items: its page parameters end with " limit: 100".
C15_DefaultLimit ==
    (/\ inv.entry = "callTool"
     /\ inv.name = LIST_ITEMS_IN_GROUPS
     /\ IsDict(inv.arguments)
     /\ ~HasKey(inv.arguments, "limit")
     /\ Len(calls) >= 1)
    => LET p == calls[1].params.query.items_page
       IN /\ Len(p) >= 4
          /\ SubSeq(p, Len(p) - 3, Len(p)) = <<LimitOpen, "1", "0", "0">>

\* C16: callTool of list-boards makes its fetch_boards call with the limit of
\* the argument bag when the bag has one, and with the default of the handler,
\* 100, when it has none.
C16_ListBoardsLimit ==
    (inv.entry = "callTool" /\ inv.name = LIST_BOARDS /\ Len(calls) >= 1) =>
        /\ calls[1].op = "boards.fetch_boards"
        /\ calls[1].params.limit
             = IF IsDict(inv.arguments) /\ HasKey(inv.arguments, "limit")
               THEN inv.arguments.d["limit"]
               ELSE PyInt(100)

\* The invocation ended in a failure: a raised exception, or a returned text
\* that reports the conflict of groupId and parentItemId or an error.
SurfacedFailure ==
    \/ result.kind = "raised"
    \/ /\ result.kind = "returned"
       /\ Len(result.content) >= 1
       /\ Len(result.content[1].text) >= 1
       /\ result.content[1].text[1]
            \in {"You can set either groupId or parentItemId argument, but not both.",
                 "Error creating Monday item: "}

\* C17: every failure of a callTool invocation, raised or returned as an error
\* text, has been logged with the name of the tool by the time the caller gets
\* it.
C17_EveryFailureLogged ==
    (inv.entry = "callTool" /\ pc = "done" /\ SurfacedFailure) =>
        \E i \in 1..Len(log) : Contains(log[i].text, <<inv.name>>)

\* The updates of a response of get-item-updates that carries a list of them.
HasUpdateList(ext) ==
    /\ ext.k = "ok"
    /\ Subscriptable(ext.v, "data")
    /\ Subscriptable(ext.v.d["data"], "items")
    /\ IsList(ext.v.d["data"].d["items"])
    /\ Len(ext.v.d["data"].d["items"].l) > 0
    /\ Subscriptable(ext.v.d["data"].d["items"].l[1], "updates")
    /\ IsList(ext.v.d["data"].d["items"].l[1].d["updates"])
UpdatesOf(ext) == ext.v.d["data"].d["items"].l[1].d["updates"].l

\* C18: whatever a handler returns, on every path (success, conflict, not
\* found, caught error), is a list of exactly one block, and the block is a
\* text; the updates of an item, however many, are all rendered inside that one
\* block.
C18_OneTextBlock ==
    result.kind = "returned" =>
        /\ Len(result.content) = 1
        /\ result.content[1].type = "text"
        /\ (/\ frame.h = H_GetItemUpdates
            /\ HasUpdateList(answers[Len(answers)])
            /\ Len(UpdatesOf(answers[Len(answers)])) > 0)
           => \A i \in 1..Len(UpdatesOf(answers[Len(answers)])) :
                 Contains(result.content[1].text,
                          <<"Update ID: ", UpdatesOf(answers[Len(answers)])[i].d["id"].s>>)

C18_Witness ==
    /\ frame.h = H_GetItemUpdates
    /\ pc = "done"
    /\ result.kind = "returned"
    /\ HasUpdateList(answers[1])
    /\ Len(UpdatesOf(answers[1])) = 2
    /\ Len(result.content) = 1
    /\ Contains(result.content[1].text, <<"Update ID: ", "301">>)
    /\ Contains(result.content[1].text, <<"Update ID: ", "302">>)

\* C20: update-item-name answers with the name-not-found text only when no
\* item of the returned list has the requested name.  When the list (of items)
\* holds an item of that name, the column update is issued and the
\* name-not-found text is not returned, whatever the id of the first match.
C20_NotFoundOnlyWithoutMatch ==
    (/\ frame.h = H_UpdateItemName
     /\ Len(answers) >= 1
     /\ HasItemList(answers[1])
     /\ AllItems(ItemsOf(answers[1]))
     /\ Matches(ItemsOf(answers[1]), RequestArg("itemName")) # {})
    => /\ CallsOf(ColumnUpdate) # {}
       /\ ~(/\ result.kind = "returned"
            /\ Contains(result.content[1].text,
                        <<"Error: Item with name '", RequestArg("itemName").s,
                          "' not found in group ">>))

\* The two invocations, by their number.
Invocation(i) == IF i = cur THEN Running ELSE other

\* The frame an invocation runs with is the one of its own request: the
\* handler of its tool, with its own arguments.
OwnFrame(x) ==
    /\ x.inv.entry = "direct" =>
          /\ x.frame.entry = "direct"
          /\ x.frame.h = x.inv.name
          /\ x.frame.a = x.inv.arguments
    /\ x.inv.entry = "callTool" =>
          /\ x.frame.entry = "callTool"
          /\ x.frame.h = HandlerOf(x.inv.name)
    /\ x.inv.entry \in {"none", "listTools"} => x.frame = NoFrame

\* What x has done so far is what y did after the same request and the same
\* answers: as far as the answers of x are the first answers of y, x has made
\* the calls y made; and with all answers equal the two are in the same state,
\* result included.
Determined(x, y) ==
    (/\ x.inv = y.inv
     /\ Len(x.answers) <= Len(y.answers)
     /\ x.answers = SubSeq(y.answers, 1, Len(x.answers)))
    => /\ Len(x.calls) <= Len(y.calls)
       /\ x.calls = SubSeq(y.calls, 1, Len(x.calls))
       /\ Len(x.answers) = Len(y.answers) => x = y

C21_CursorOnlyWhenSupplied ==
    (frame.h \in {H_ToolsListItems, H_ItemListItems} /\ Len(calls) >= 1) =>
        /\ Contains(calls[1].params.query.items_page, <<GroupFilterOpen>>)
             # Contains(calls[1].params.query.items_page, <<CursorOpen>>)
        /\ Contains(calls[1].params.query.items_page, <<CursorOpen>>) =>
             /\ IsSet(RequestArg("cursor"))
             /\ SubSeq(calls[1].params.query.items_page, 1, 3)
                  = <<CursorOpen, RequestArg("cursor").s, "\"">>

====
